---- MODULE Spec2Model ----
(***************************************************************************)
(* Model of the read-through cache (redis_cache), the invalidation guard  *)
(* (invalidate_cache) and the bucket/event gateway of fastapi-infra-kit.  *)
(*                                                                         *)
(* Texts (cache keys, glob patterns, bucket names, cursors) are sequences *)
(* of one-character strings, so that key formatting, prefix tests and     *)
(* redis glob matching are computed character by character.               *)
(*                                                                         *)
(* Every request is a process p that runs one endpoint call at a time;    *)
(* each await on the Store or on redis is one step of that process, so    *)
(* calls of different processes interleave at exactly those points.       *)
(***************************************************************************)
EXTENDS Integers, Sequences, FiniteSets, TLC

VARIABLES
    buckets,    \* Store: committed rows of table "buckets", in commit order
    events,     \* Store: committed rows of table "events", in commit order
    cache,      \* redis: function from the keys present to their entries (with,
                \* as history, the Store version, the result and the parameters
                \* they were made from, and the seconds since they were written)
    call,       \* per process: the endpoint call in progress and its locals
    nStarted,   \* number of calls started so far
    mode,       \* kind of run: "concurrent", "sequential", "decorators",
                \* "requests", "expiry", "keys" or "pages"
    invalidated, \* history: cached list keys a completed write was to invalidate
                \* and that no read has asked for since, with that write's event id
    walk        \* a client that reads a list page after page, following next_page

vars == <<buckets, events, cache, call, nStarted, mode, invalidated, walk>>

----------------------------------------------------------------------------
(* Bounds of the model *)

MaxEvents == 2          \* events (one per committed write) the Store may hold
MaxCallsSeq == 4        \* calls started in a run without concurrency
MaxCallsConc == 3       \* calls started in a run with two concurrent requests

Procs == {1, 2}

\* calls that may be in progress at the same time, and calls a run may
\* start, by the kind of run
MaxActive == IF mode = "concurrent" THEN 2 ELSE 1
Quota ==
    IF mode = "concurrent" THEN MaxCallsConc
    ELSE IF mode = "requests" THEN 1
    ELSE IF mode = "expiry" THEN 3
    ELSE IF mode = "keys" THEN 2
    ELSE IF mode = "direct" THEN 3
    ELSE MaxCallsSeq

----------------------------------------------------------------------------
(* Texts *)

S_buckets == <<"b","u","c","k","e","t","s">>
S_bucket_events == <<"b","u","c","k","e","t","_","e","v","e","n","t","s">>
S_event == <<"e","v","e","n","t">>
S_colon == <<":">>
S_cursor_eq == <<":","c","u","r","s","o","r","=">>
S_size_eq == <<":","s","i","z","e","=">>
S_None == <<"N","o","n","e">>

DigitChar == <<"0","1","2","3","4","5","6","7","8","9">>

RECURSIVE NatStr(_)
NatStr(n) ==
    IF n < 10 THEN <<DigitChar[n + 1]>>
    ELSE NatStr(n \div 10) \o <<DigitChar[(n % 10) + 1]>>

\* str(int) of Python
IntStr(n) == IF n < 0 THEN <<"-">> \o NatStr(0 - n) ELSE NatStr(n)

\* str(uuid.UUID): the canonical text of the identifier; identifiers are
\* numbered 1, 2, ... in the model and their text is "u" followed by the number
UuidStr(i) == <<"u">> \o NatStr(i)

IsPrefix(p, s) == Len(p) <= Len(s) /\ SubSeq(s, 1, Len(p)) = p

\* Python values passed as keyword arguments
PyNone == [t |-> "none", s |-> <<>>, n |-> 0]
PyStr(s) == [t |-> "str", s |-> s, n |-> 0]
PyInt(n) == [t |-> "int", s |-> <<>>, n |-> n]
PyUuid(i) == [t |-> "uuid", s |-> <<>>, n |-> i]

\* format(value, "") as str.format applies it to a replacement field
FormatValue(v) ==
    CASE v.t = "none" -> S_None
      [] v.t = "str" -> v.s
      [] v.t = "int" -> IntStr(v.n)
      [] v.t = "uuid" -> UuidStr(v.n)

Lit(s) == [ph |-> "", lit |-> s]
Field(name) == [ph |-> name, lit |-> <<>>]

KeyError == <<"!KeyError">>

\* faulty variant: a field without keyword argument is rendered as the empty text
RECURSIVE FormatLenient(_, _)
FormatLenient(template, kwargs) ==
    IF template = <<>> THEN <<>>
    ELSE LET part == Head(template)
             rest == FormatLenient(Tail(template), kwargs)
         IN IF part.ph = "" THEN part.lit \o rest
            ELSE IF part.ph \in DOMAIN kwargs
                 THEN FormatValue(kwargs[part.ph]) \o rest
                 ELSE rest

\* key_template.format(**kwargs): literal parts are copied, every replacement
\* field is replaced by the text of the keyword argument of that name; a field
\* without keyword argument raises KeyError
RECURSIVE Format(_, _)
Format(template, kwargs) ==
    IF template = <<>> THEN <<>>
    ELSE LET part == Head(template)
             rest == Format(Tail(template), kwargs)
         IN IF rest = KeyError THEN KeyError
            ELSE IF part.ph = "" THEN part.lit \o rest
            ELSE IF part.ph \in DOMAIN kwargs
                 THEN FormatValue(kwargs[part.ph]) \o rest
                 ELSE KeyError

\* faulty variant: the pattern is compared as plain text, "*" matching only itself
GlobMatchLiteral(pat, s) == pat = s

\* redis glob matching of MATCH patterns: "*" matches any text, "?" any one
\* character, every other character itself
RECURSIVE GlobMatch(_, _)
GlobMatch(pat, s) ==
    IF pat = <<>> THEN s = <<>>
    ELSE IF Head(pat) = "*"
         THEN GlobMatch(Tail(pat), s) \/ (s # <<>> /\ GlobMatch(pat, Tail(s)))
         ELSE /\ s # <<>>
              /\ (Head(pat) = "?" \/ Head(pat) = Head(s))
              /\ GlobMatch(Tail(pat), Tail(s))

----------------------------------------------------------------------------
(* Store: tables "buckets" and "events" *)

NameA == <<"a">>
NameAB == <<"a","b">>
Names == {NameA, NameAB}

\* EventCreate bodies: title and message. The requests of a sequential run
\* carry either of two bodies, those of the other runs the first one
Payloads ==
    IF mode = "sequential"
    THEN {[title |-> <<"t">>, message |-> <<"m">>],
          [title |-> <<"u">>, message |-> <<"n">>]}
    ELSE {[title |-> <<"t">>, message |-> <<"m">>]}

NoRow == [id |-> 0]

\* select(Bucket).where(Bucket.name == bucket_name) ... .one()
FindBucket(bs, name) ==
    IF \E i \in 1..Len(bs) : bs[i].name = name
    THEN bs[CHOOSE i \in 1..Len(bs) : bs[i].name = name]
    ELSE NoRow

\* faulty variant: the WHERE clause leaves out Event.id
FindEventOfBucket(es, bucket_id, event_id) ==
    IF \E i \in 1..Len(es) : es[i].bucket_id = bucket_id
    THEN es[CHOOSE i \in 1..Len(es) :
                /\ es[i].bucket_id = bucket_id
                /\ \A j \in 1..(i - 1) : es[j].bucket_id # bucket_id]
    ELSE NoRow

\* faulty variant: the WHERE clause leaves out Event.bucket_id
FindEventAnyBucket(es, bucket_id, event_id) ==
    IF \E i \in 1..Len(es) : es[i].id = event_id
    THEN es[CHOOSE i \in 1..Len(es) : es[i].id = event_id]
    ELSE NoRow

\* select(Event).where(Event.id == event_id, Event.bucket_id == bucket.id) ... .one()
FindEvent(es, bucket_id, event_id) ==
    IF \E i \in 1..Len(es) : es[i].id = event_id /\ es[i].bucket_id = bucket_id
    THEN es[CHOOSE i \in 1..Len(es) : es[i].id = event_id /\ es[i].bucket_id = bucket_id]
    ELSE NoRow

\* select(Event).where(Event.bucket_id == bucket.id).order_by(Event.created_at):
\* rows are committed in increasing created_at, so commit order is the order
EventsOf(es, bucket_id) ==
    LET Mine(e) == e.bucket_id = bucket_id IN SelectSeq(es, Mine)

----------------------------------------------------------------------------
(* Cursor pagination (apaginate with CursorParams) *)

NoCursor == PyNone

\* the opaque token of "after the row whose sort value is k"
EncodeCursor(k) == <<"p">> \o NatStr(k)

Cursors == {NoCursor, PyStr(EncodeCursor(1))}
Sizes == {1, 2}

\* the sort value a token stands for, -1 for a text that is no token
DecodeCursor(text) ==
    IF \E k \in 0..(MaxEvents + 2) : EncodeCursor(k) = text
    THEN CHOOSE k \in 0..(MaxEvents + 2) : EncodeCursor(k) = text
    ELSE -1

Min(a, b) == IF a < b THEN a ELSE b

\* one page of an ordered row sequence: the first `size` rows after the
\* cursor's position, and the token of the last of them when rows remain
Paginate(rows, cursor, size) ==
    LET after == IF cursor.t = "none" THEN 0 ELSE DecodeCursor(cursor.s)
        After(r) == r.ts > after
        cand == SelectSeq(rows, After)
        items == SubSeq(cand, 1, Min(size, Len(cand)))
    IN [items |-> items,
        next_page |-> IF Len(cand) > size /\ Len(items) > 0
                      THEN PyStr(EncodeCursor(items[Len(items)].ts))
                      ELSE NoCursor]

----------------------------------------------------------------------------
(* Endpoints, their cache decorators and their results *)

\* the operations of the application
Endpoints == {"fetch_buckets", "fetch_bucket_events", "fetch_event", "send_event_to_bucket"}

\* functions under the decorators as no endpoint of the application uses
\* them, called in "decorators" runs only:
\* "exact_guard_write" is create_bucket_with_event under one invalidate_cache
\* with recursive=False (the decorator's default);
\* "misnamed_field_read" is get_all_buckets under a redis_cache whose template
\* names a field that is no parameter of the function;
\* "misnamed_field_write" is create_bucket_with_event under two
\* invalidate_cache, the inner one with such a template
DecoratorOps == {"exact_guard_write", "misnamed_field_read", "misnamed_field_write"}

ReadOps == {"fetch_buckets", "fetch_bucket_events", "fetch_event", "misnamed_field_read"}

WriteOps == {"send_event_to_bucket", "exact_guard_write", "misnamed_field_write"}

\* the key template of the redis_cache decorator of each read endpoint
CacheTemplate(op) ==
    CASE op = "fetch_buckets" ->
            <<Lit(S_buckets), Lit(S_cursor_eq), Field("cursor"),
              Lit(S_size_eq), Field("size")>>
      [] op = "fetch_bucket_events" ->
            <<Lit(S_bucket_events), Lit(S_colon), Field("bucket_name"),
              Lit(S_cursor_eq), Field("cursor"), Lit(S_size_eq), Field("size")>>
      [] op = "fetch_event" ->
            <<Lit(S_event), Lit(S_colon), Field("bucket_name"),
              Lit(S_colon), Field("event_ID")>>
      [] op = "misnamed_field_read" ->
            <<Lit(S_buckets), Lit(S_colon), Field("page")>>

CacheTtl == 3600

\* the invalidate_cache decorators of a write endpoint, outermost first
Guards(op) ==
    IF op = "send_event_to_bucket"
    THEN << [template |-> <<Lit(S_bucket_events), Lit(S_colon), Field("bucket_name")>>,
             recursive |-> TRUE],
            [template |-> <<Lit(S_buckets)>>, recursive |-> TRUE] >>
    ELSE IF op = "exact_guard_write"
    THEN << [template |-> <<Lit(S_bucket_events), Lit(S_colon), Field("bucket_name"),
                            Lit(S_cursor_eq), Lit(S_None), Lit(S_size_eq), Lit(<<"1">>)>>,
             recursive |-> FALSE] >>
    ELSE IF op = "misnamed_field_write"
    THEN << [template |-> <<Lit(S_buckets)>>, recursive |-> TRUE],
            [template |-> <<Lit(S_bucket_events), Lit(S_colon), Field("name")>>,
             recursive |-> TRUE] >>
    ELSE << >>

\* the characters of the path parameters of a run of kind "requests";
\* "U+00E9" stands for the one character e with acute accent
RawNameChars == {"a", "1", "-", "_", "@", "U+00E9"}

\* bucket names as they arrive: any text of one or two characters
RawNames ==
    {<<a>> : a \in RawNameChars} \cup {<<a, b>> : a \in RawNameChars, b \in RawNameChars}

\* the size and cursor query parameters as they arrive
RawSizes == {-1, 0, 1, 2, 100, 101}
RawCursors == {NoCursor, PyStr(EncodeCursor(1)), PyStr(<<"x">>)}

\* the parameter values of the requests of a run: those of a run of kind
\* "requests" are any a client may send, those of the other runs pass the
\* dependencies; in a run of kind "keys" a client also sends the text "None"
\* as cursor
NameInputs == IF mode = "requests" THEN RawNames ELSE Names
SizeInputs == IF mode = "requests" THEN RawSizes ELSE Sizes
CursorInputs ==
    IF mode = "requests" THEN RawCursors
    ELSE IF mode = "keys" THEN Cursors \cup {PyStr(S_None)}
    ELSE Cursors

\* the keyword arguments FastAPI calls each endpoint with (session and redis
\* apart)
KwargsOf(op) ==
    CASE op \in {"fetch_buckets", "misnamed_field_read"} ->
            {[cursor |-> c, size |-> PyInt(z)] : c \in CursorInputs, z \in SizeInputs}
      [] op = "fetch_bucket_events" ->
            {[bucket_name |-> PyStr(n), cursor |-> c, size |-> PyInt(z)] :
                n \in NameInputs, c \in CursorInputs, z \in SizeInputs}
      [] op = "fetch_event" ->
            {[bucket_name |-> PyStr(n), event_ID |-> PyUuid(i)] :
                n \in NameInputs, i \in 1..MaxEvents}
      [] op \in WriteOps ->
            {[bucket_name |-> PyStr(n), event |-> e] : n \in NameInputs, e \in Payloads}

\* what a call ends with: the value returned (exc = "none") or the exception
\* that leaves the endpoint
Returned(status, body) == [exc |-> "none", status |-> status, body |-> body]
Raised(exc, status, detail) == [exc |-> exc, status |-> status, body |-> detail]
NoResult == [exc |-> "pending", status |-> 0, body |-> <<>>]

NotFound(resource) == Raised("NotFoundException", 404, <<resource, "not found">>)
AlreadyExists(resource) ==
    Raised("AlreadyExistsException", 409, <<resource, "already exists">>)
SomethingWentWrong ==
    Raised("HTTPException", 500, <<"Something went wrong, please contact support.">>)
RedisError == Raised("RedisError", 500, <<"redis">>)

----------------------------------------------------------------------------
(* Dependencies of the routes (deps.py) *)

AsciiAlnum ==
    {"a","b","c","d","e","f","g","h","i","j","k","l","m",
     "n","o","p","q","r","s","t","u","v","w","x","y","z",
     "A","B","C","D","E","F","G","H","I","J","K","L","M",
     "N","O","P","Q","R","S","T","U","V","W","X","Y","Z",
     "0","1","2","3","4","5","6","7","8","9"}

\* the characters str.isalnum counts as alphanumeric: letters and digits of
\* any script
AlnumChars == AsciiAlnum \cup {"U+00E9"}

\* text.replace(ch, "")
StrReplace(text, ch) == LET Other(x) == x # ch IN SelectSeq(text, Other)

\* text.isalnum(): at least one character, all of them alphanumeric
StrIsalnum(text) == text # << >> /\ \A i \in 1..Len(text) : text[i] \in AlnumChars

\* the message of the name check
InvalidValueMessage(param, value) ==
    <<"Invalid value for ", param, ": ">> \o value
    \o <<". Only alphanumeric characters, dashes, and underscores are allowed.">>

UnprocessableEntity(message) == Raised("UnprocessableEntityException", 422, message)

\* check_alphanumeric_dash_underscore_path_params([param])._callback: raises
\* for a non-empty value that, dashes and underscores removed, is not isalnum
CheckAlphanumericDashUnderscorePathParams(param, kwargs) ==
    LET value == kwargs[param].s IN
    IF value # << >> /\ ~StrIsalnum(StrReplace(StrReplace(value, "-"), "_"))
    THEN UnprocessableEntity(InvalidValueMessage(param, value))
    ELSE NoResult

\* the largest size CursorParams accepts (its field is declared ge=0, le=100)
MaxPageSize == 100

\* set_pagination(model)._callback: CursorParams(cursor=cursor, size=size) is
\* built from the query parameters as they arrive; a size its field does not
\* accept raises pydantic's ValidationError, for which main.py registers no
\* handler
SetPagination(kwargs) ==
    IF kwargs.size.n < 0 \/ kwargs.size.n > MaxPageSize
    THEN Raised("ValidationError", 500, <<"size">>)
    ELSE NoResult

\* the dependencies of the route of op, in the order of its decorator: the
\* exception of the first that raises, NoResult when all pass
Dependencies(op, kwargs) ==
    LET pagination == IF op \in {"fetch_buckets", "fetch_bucket_events"}
                      THEN SetPagination(kwargs) ELSE NoResult
    IN IF pagination # NoResult THEN pagination
       ELSE IF "bucket_name" \in DOMAIN kwargs
       THEN CheckAlphanumericDashUnderscorePathParams("bucket_name", kwargs)
       ELSE NoResult

----------------------------------------------------------------------------
(* Services and endpoint bodies *)

\* BucketResponse.model_validate(bucket).model_dump()
BucketFields(b) == [id |-> b.id, name |-> b.name, ts |-> b.ts]
\* EventResponse.model_validate(event)
EventFields(e) == [id |-> e.id, title |-> e.title, message |-> e.message, ts |-> e.ts]

\* exceptions of class APIException (api_exceptions.py)
APIExceptions ==
    {"NotFoundException", "AlreadyExistsException", "DeveloperException",
     "DatabaseConnectionException", "IntegrityConstraintException"}

\* an exception raised below the handlers: by the ORM or by the paginator
Raw(exc) == Raised(exc, 0, << >>)

DeveloperError(status, what) ==
    Raised("DeveloperException", status, <<what, "raised without a resource name">>)

\* faulty variant: without the clause that re-raises an APIException, which
\* then falls to the last clause
HandlerWithoutReraise(resource_name, r) ==
    IF r.exc = "none" THEN r
    ELSE IF r.exc = "NoResultFound"
    THEN (IF resource_name = "" THEN DeveloperError(404, "NoResultFound")
          ELSE NotFound(resource_name))
    ELSE IF r.exc = "IntegrityError"
    THEN (IF resource_name = "" THEN DeveloperError(409, "IntegrityError")
          ELSE AlreadyExists(resource_name))
    ELSE SomethingWentWrong

\* sqlalchemy_exception_handler(resource_name).wrapper around a function that
\* ended with r: a return value and an APIException pass unchanged,
\* NoResultFound becomes NotFoundException, IntegrityError
\* AlreadyExistsException, every other exception the generic 500
SqlalchemyExceptionHandler(resource_name, r) ==
    IF r.exc = "none" THEN r
    ELSE IF r.exc \in APIExceptions THEN r
    ELSE IF r.exc = "NoResultFound"
    THEN (IF resource_name = "" THEN DeveloperError(404, "NoResultFound")
          ELSE NotFound(resource_name))
    ELSE IF r.exc = "IntegrityError"
    THEN (IF resource_name = "" THEN DeveloperError(409, "IntegrityError")
          ELSE AlreadyExists(resource_name))
    ELSE SomethingWentWrong

\* apaginate(session, query) under the CursorParams of the request: the page,
\* or the paginator's exception for a cursor that is no token
Apaginate(rows, kwargs) ==
    IF kwargs.cursor.t # "none" /\ DecodeCursor(kwargs.cursor.s) < 0
    THEN Raised("HTTPException", 400, <<"Invalid cursor value">>)
    ELSE Returned(200, Paginate(rows, kwargs.cursor, kwargs.size.n))

\* BucketService.get_bucket_by_name
GetBucketByName(bs, name) ==
    SqlalchemyExceptionHandler("Bucket",
        LET bucket == FindBucket(bs, name) IN
        IF bucket = NoRow THEN Raw("NoResultFound") ELSE Returned(200, bucket))

\* BucketService.get_all_buckets: CursorPage[BucketResponse]
GetAllBuckets(bs, kwargs) ==
    SqlalchemyExceptionHandler("Buckets",
        LET pg == Apaginate(bs, kwargs) IN
        IF pg.exc # "none" THEN pg
        ELSE Returned(200, [items |-> [i \in 1..Len(pg.body.items) |->
                                          BucketFields(pg.body.items[i])],
                            next_page |-> pg.body.next_page]))

\* BucketService.get_bucket_with_events: the bucket and CursorPage[EventResponse]
GetBucketWithEvents(bs, es, kwargs) ==
    SqlalchemyExceptionHandler("Events",
        LET b == GetBucketByName(bs, kwargs.bucket_name.s) IN
        IF b.exc # "none" THEN b
        ELSE LET pg == Apaginate(EventsOf(es, b.body.id), kwargs) IN
             IF pg.exc # "none" THEN pg
             ELSE Returned(200,
                    [bucket |-> b.body,
                     events |-> [items |-> [i \in 1..Len(pg.body.items) |->
                                               EventFields(pg.body.items[i])],
                                 next_page |-> pg.body.next_page]]))

\* EventService.get_event_in_bucket
GetEventInBucket(bs, es, kwargs) ==
    SqlalchemyExceptionHandler("Event",
        LET b == GetBucketByName(bs, kwargs.bucket_name.s) IN
        IF b.exc # "none" THEN b
        ELSE LET event == FindEvent(es, b.body.id, kwargs.event_ID.n) IN
             IF event = NoRow THEN Raw("NoResultFound") ELSE Returned(200, event))

\* the body of each read endpoint, computed from the Store: the value it
\* returns or the exception that leaves it
ReadFunc(op, kwargs, bs, es) ==
    IF op \in {"fetch_buckets", "misnamed_field_read"} THEN GetAllBuckets(bs, kwargs)
    ELSE IF op = "fetch_bucket_events"
    THEN LET r == GetBucketWithEvents(bs, es, kwargs) IN
         IF r.exc # "none" THEN r
         ELSE Returned(200, [bucket |-> BucketFields(r.body.bucket),
                             events |-> r.body.events])
    ELSE LET r == GetEventInBucket(bs, es, kwargs) IN
         IF r.exc # "none" THEN r
         ELSE Returned(200, EventFields(r.body))

\* func.__annotations__["return"] of each read endpoint
ReturnType(op) ==
    CASE op \in {"fetch_buckets", "misnamed_field_read"} -> "CursorPage[BucketResponse]"
      [] op = "fetch_bucket_events" -> "BucketEventsMixin"
      [] op = "fetch_event" -> "EventResponse"

\* JSON values: strings carry their text, null stands for None; objects are
\* records and arrays sequences
JString(text) == [j |-> "string", v |-> text]
JNull == [j |-> "null", v |-> << >>]

\* the JSON text of a datetime (UTC, ISO 8601 with "Z") and of a UUID, and the
\* values pydantic parses such texts to; 0 stands for a text it rejects
IsoFormat(ts) == NatStr(ts) \o <<"Z">>
ParseDatetime(text) ==
    IF \E k \in 1..(MaxEvents + 2) : IsoFormat(k) = text
    THEN CHOOSE k \in 1..(MaxEvents + 2) : IsoFormat(k) = text
    ELSE 0
ParseUuid(text) ==
    IF \E k \in 1..(MaxEvents + 2) : UuidStr(k) = text
    THEN CHOOSE k \in 1..(MaxEvents + 2) : UuidStr(k) = text
    ELSE 0

BucketToJson(b) ==
    [id |-> JString(UuidStr(b.id)), name |-> JString(b.name),
     ts |-> JString(IsoFormat(b.ts))]
EventToJson(e) ==
    [id |-> JString(UuidStr(e.id)), title |-> JString(e.title),
     message |-> JString(e.message), ts |-> JString(IsoFormat(e.ts))]
CursorToJson(c) == IF c.t = "none" THEN JNull ELSE JString(c.s)

BucketFromJson(d) ==
    [id |-> ParseUuid(d.id.v), name |-> d.name.v, ts |-> ParseDatetime(d.ts.v)]
EventFromJson(d) ==
    [id |-> ParseUuid(d.id.v), title |-> d.title.v, message |-> d.message.v,
     ts |-> ParseDatetime(d.ts.v)]
CursorFromJson(d) == IF d.j = "null" THEN PyNone ELSE PyStr(d.v)

\* result.model_dump_json(): the JSON document of a result, each field under
\* its field name
ModelDumpJson(return_type, body) ==
    [json |->
        CASE return_type = "CursorPage[BucketResponse]" ->
                [items |-> [i \in 1..Len(body.items) |-> BucketToJson(body.items[i])],
                 next_page |-> CursorToJson(body.next_page)]
          [] return_type = "BucketEventsMixin" ->
                [bucket |-> BucketToJson(body.bucket),
                 events |->
                    [items |-> [i \in 1..Len(body.events.items) |->
                                    EventToJson(body.events.items[i])],
                     next_page |-> CursorToJson(body.events.next_page)]]
          [] return_type = "EventResponse" -> EventToJson(body)]

\* faulty variant: the page cursor is looked up under another name than the
\* one it was dumped under, and so takes its default, None
ModelValidateJsonNoCursor(return_type, data) ==
    LET d == data.json IN
    CASE return_type = "CursorPage[BucketResponse]" ->
            [items |-> [i \in 1..Len(d.items) |-> BucketFromJson(d.items[i])],
             next_page |-> PyNone]
      [] return_type = "BucketEventsMixin" ->
            [bucket |-> BucketFromJson(d.bucket),
             events |->
                [items |-> [i \in 1..Len(d.events.items) |->
                                EventFromJson(d.events.items[i])],
                 next_page |-> PyNone]]
      [] return_type = "EventResponse" -> EventFromJson(d)

\* return_type.model_validate(json.loads(cached_data)): the result object
\* built from the fields of the JSON document
ModelValidateJson(return_type, data) ==
    LET d == data.json IN
    CASE return_type = "CursorPage[BucketResponse]" ->
            [items |-> [i \in 1..Len(d.items) |-> BucketFromJson(d.items[i])],
             next_page |-> CursorFromJson(d.next_page)]
      [] return_type = "BucketEventsMixin" ->
            [bucket |-> BucketFromJson(d.bucket),
             events |->
                [items |-> [i \in 1..Len(d.events.items) |->
                                EventFromJson(d.events.items[i])],
                 next_page |-> CursorFromJson(d.events.next_page)]]
      [] return_type = "EventResponse" -> EventFromJson(d)

----------------------------------------------------------------------------
(* redis commands *)

NoKeys == << >>

\* GET key: the value, or None
RedisGet(c, key) == IF key \in DOMAIN c THEN c[key].val ELSE PyNone

\* faulty variant: the value is set only when the key is absent (SET ... NX),
\* so that the first write wins
RedisSetIfAbsent(c, key, entry) ==
    [k \in (DOMAIN c) \cup {key} |-> IF k \in DOMAIN c THEN c[k] ELSE entry]

\* SETEX key ttl value / SET key value
RedisSet(c, key, entry) ==
    [k \in (DOMAIN c) \cup {key} |-> IF k = key THEN entry ELSE c[k]]

\* the time to live of a key without expiry, as TTL reports it
Persistent == -1

\* faulty variant: SET key value, which leaves the key without expiry
RedisSetPersistent(c, key, ttl, entry) ==
    RedisSet(c, key, [val |-> entry.val, ttl |-> Persistent, ver |-> entry.ver,
                      ret |-> entry.ret, kw |-> entry.kw, age |-> 0])

\* SETEX key ttl value: the key holds the value and expires ttl seconds from now
RedisSetex(c, key, ttl, entry) ==
    RedisSet(c, key, [val |-> entry.val, ttl |-> ttl, ver |-> entry.ver,
                      ret |-> entry.ret, kw |-> entry.kw, age |-> 0])

\* the keys of redis d seconds later: every key with an expiry has d seconds
\* less to live, and is gone when none is left
Elapse(c, d) ==
    [k \in {x \in DOMAIN c : c[x].ttl = Persistent \/ c[x].ttl > d} |->
        IF c[k].ttl = Persistent THEN [c[k] EXCEPT !.age = @ + d]
        ELSE [c[k] EXCEPT !.ttl = @ - d, !.age = @ + d]]

\* DEL of every key of D
RedisDelete(c, D) == [k \in (DOMAIN c) \ D |-> c[k]]

\* the keys SCAN ... MATCH pattern returns
ScanIter(keys, pattern) == {k \in keys : GlobMatch(pattern, k)}

\* faulty variant: the recursive flag is ignored and the exact key alone deleted
InvalidationTargetsExact(keys, cache_key, recursive) == {cache_key} \cap keys

\* the keys one invalidate_cache wrapper deletes, of the keys present
InvalidationTargets(keys, cache_key, recursive) ==
    IF recursive THEN ScanIter(keys, cache_key \o <<"*">>)
    ELSE {cache_key} \cap keys

----------------------------------------------------------------------------
(* Calls *)

Idle ==
    [op |-> "none", pc |-> "idle", kwargs |-> << >>, guard |-> 0, key |-> << >>,
     got |-> "none", calls |-> 0, result |-> NoResult, wrote |-> FALSE,
     ver |-> 0, found |-> 0, expect |-> 0, db |-> "none", session |-> "open",
     redis |-> TRUE, log |-> << >>]

Active(p) == call[p].pc \notin {"idle", "done"}
NumActive == Cardinality({p \in Procs : Active(p)})
ActiveWrites == Cardinality({p \in Procs : Active(p) /\ call[p].op \in WriteOps})

\* the call of p ends: result r leaves the endpoint
Finish(c, r) == [c EXCEPT !.pc = "done", !.result = r]

\* the first cache key a call builds: the redis_cache key of a read, the key of
\* the outermost invalidate_cache of a write
FirstKey(op, kwargs) ==
    IF op \in ReadOps THEN Format(CacheTemplate(op), kwargs)
    ELSE Format(Guards(op)[1].template, kwargs)

\* history: the list keys a write for bucket `name` is to invalidate (pages of
\* the bucket list and pages of the events of that bucket), whatever their
\* cursor and size
ListKeysOf(name) ==
    {Format(CacheTemplate("fetch_buckets"), kw) : kw \in KwargsOf("fetch_buckets")}
    \cup {Format(CacheTemplate("fetch_bucket_events"), kw) :
            kw \in {k \in KwargsOf("fetch_bucket_events") : k.bucket_name.s = name}}

\* whether the keyword arguments of a call hold a redis client: the routes
\* always pass one (Depends(get_redis)), a direct caller of a wrapped function
\* may not
RedisInputs == IF mode = "direct" THEN BOOLEAN ELSE {TRUE}

\* faulty variant: the wrapper goes on to the cache without a redis client
WithoutRedisIgnored(redis) == FALSE

\* both wrappers: redis = kwargs.get("redis"); if not redis: return await
\* func(*args, **kwargs). `redis` tells whether kwargs holds a client
WithoutRedis(redis) == ~redis

\* a request arrives and is served by p, the first free task; the locals of
\* calls that have ended are dropped. The dependencies of the route run and
\* the exception of one ends the request; then the outermost wrapper reads
\* kwargs["redis"]: without a client every wrapper of the call goes straight
\* to the function it wraps, with one the outermost wrapper builds its key
Start(p) ==
    /\ ~Active(p)
    /\ \A q \in Procs : q < p => Active(q)
    /\ NumActive < MaxActive
    /\ nStarted < Quota
    /\ \E op \in Endpoints \cup (IF mode \in {"decorators", "direct"}
                                 THEN DecoratorOps ELSE {}) :
       \E kw \in KwargsOf(op) : \E redis \in RedisInputs :
         LET bare == WithoutRedis(redis)
             key == IF bare THEN << >> ELSE FirstKey(op, kw)
             dep == Dependencies(op, kw)
             c0 == [Idle EXCEPT !.op = op, !.kwargs = kw, !.key = key,
                                !.redis = redis,
                                !.guard = IF op \in WriteOps /\ ~bare THEN 1 ELSE 0,
                                !.expect = IF op \in ReadOps /\ key \in DOMAIN invalidated
                                           THEN invalidated[key] ELSE 0]
         IN /\ op \in WriteOps => Len(events) + ActiveWrites < MaxEvents
            /\ call' = [q \in Procs |->
                            IF q = p
                            THEN IF dep # NoResult
                                 THEN Finish([c0 EXCEPT !.key = << >>, !.expect = 0], dep)
                                 ELSE IF key = KeyError
                                 THEN Finish(c0, Raised("KeyError", 500, <<"key">>))
                                 ELSE IF bare
                                 THEN [c0 EXCEPT !.pc = IF op \in ReadOps THEN "rc_func"
                                                        ELSE "w_get"]
                                 ELSE [c0 EXCEPT !.pc = IF op \in ReadOps THEN "rc_get"
                                                        ELSE "inv"]
                            ELSE IF Active(q) THEN call[q] ELSE Idle]
            /\ invalidated' = IF op \in ReadOps /\ dep = NoResult
                              THEN [k \in (DOMAIN invalidated) \ {key} |-> invalidated[k]]
                              ELSE invalidated
    /\ nStarted' = nStarted + 1
    /\ UNCHANGED <<buckets, events, cache, mode, walk>>

\* faulty variant: the value found is not returned, the wrapper falls through to func
AfterGetFallsThrough(c, cached_data) ==
    [c EXCEPT !.got = IF cached_data # PyNone THEN "hit" ELSE "miss", !.pc = "rc_func"]

\* redis_cache.wrapper after redis.get returned cached_data: a value is
\* validated and returned, without it the wrapper goes on to call func.
\* c.got records what redis.get returned
AfterGet(c, cached_data) ==
    IF cached_data # PyNone
    THEN Finish([c EXCEPT !.got = "hit"],
                Returned(200, ModelValidateJson(ReturnType(c.op), cached_data)))
    ELSE [c EXCEPT !.got = "miss", !.pc = "rc_func"]

\* redis_cache.wrapper: cached_data = await redis.get(cache_key); redis.get
\* raising leaves the wrapper
CacheGet(p) ==
    LET c == call[p] IN
    /\ c.pc = "rc_get"
    /\ \E up \in BOOLEAN :
         call' = [call EXCEPT ![p] =
            IF ~up THEN Finish(c, RedisError)
            ELSE AfterGet(c, RedisGet(cache, c.key))]
    /\ UNCHANGED <<buckets, events, cache, nStarted, mode, invalidated, walk>>

\* faulty variant: what func ended with is kept as the result to cache, an
\* exception too
AfterFuncCachesFailure(c, r) ==
    IF WithoutRedis(c.redis) THEN Finish(c, r)
    ELSE [c EXCEPT !.result = r, !.pc = "rc_set"]

\* redis_cache.wrapper after func has ended with r: an exception leaves the
\* wrapper, a returned value is next written to redis; without a redis client
\* the wrapper returns what func returned
AfterFunc(c, r) ==
    IF WithoutRedis(c.redis) THEN Finish(c, r)
    ELSE IF r.exc = "none" THEN [c EXCEPT !.result = r, !.pc = "rc_set"]
    ELSE Finish(c, r)

\* redis_cache.wrapper: result = await func(*args, **kwargs); an exception of
\* func leaves the wrapper; a Store failure is turned into the generic 500.
\* c.db records, as history, whether the Store answered
CallFunc(p) ==
    LET c == call[p] IN
    /\ c.pc = "rc_func"
    /\ \E dbUp \in BOOLEAN :
         LET r == IF dbUp THEN ReadFunc(c.op, c.kwargs, buckets, events)
                  ELSE SomethingWentWrong
             c1 == [c EXCEPT !.calls = @ + 1, !.ver = Len(events),
                             !.db = IF dbUp THEN "up" ELSE "down"]
         IN call' = [call EXCEPT ![p] = AfterFunc(c1, r)]
    /\ UNCHANGED <<buckets, events, cache, nStarted, mode, invalidated, walk>>

\* redis_cache.wrapper: await redis.setex(cache_key, ttl, cache_value); return
\* result; redis.setex raising leaves the wrapper
CacheSet(p) ==
    LET c == call[p] IN
    /\ c.pc = "rc_set"
    /\ \E up \in BOOLEAN :
         IF up
         THEN /\ cache' = RedisSetex(cache, c.key, CacheTtl,
                                     [val |-> ModelDumpJson(ReturnType(c.op), c.result.body),
                                      ver |-> c.ver, ret |-> c.result.body,
                                      kw |-> c.kwargs])
              /\ call' = [call EXCEPT ![p] = Finish([c EXCEPT !.wrote = TRUE], c.result)]
         ELSE /\ cache' = cache
              /\ call' = [call EXCEPT ![p] = Finish(c, RedisError)]
    /\ UNCHANGED <<buckets, events, nStarted, mode, invalidated, walk>>

\* invalidate_cache.wrapper of guard c.guard: the keys are deleted (one DEL
\* per key SCAN returns, or one DEL of the exact key), then func is awaited:
\* the next wrapper, which builds its key (KeyError leaves both wrappers), or
\* the endpoint body. redis raising leaves the wrapper with the keys deleted
\* so far gone
Invalidate(p) ==
    LET c == call[p]
        gs == Guards(c.op)
        targets == InvalidationTargets(DOMAIN cache, c.key, gs[c.guard].recursive)
    IN
    /\ c.pc = "inv"
    /\ \E up \in BOOLEAN : \E D \in SUBSET targets :
         /\ up => D = targets
         /\ cache' = RedisDelete(cache, D)
         /\ LET c1 == [c EXCEPT !.log = Append(@, [step |-> "invalidate",
                                                    guard |-> c.guard, key |-> c.key,
                                                    before |-> DOMAIN cache,
                                                    deleted |-> D, ok |-> up])]
            IN call' = [call EXCEPT ![p] =
                 IF ~up THEN Finish(c1, RedisError)
                 ELSE IF c.guard < Len(gs)
                 THEN LET key == Format(gs[c.guard + 1].template, c.kwargs)
                          c2 == [c1 EXCEPT !.guard = c.guard + 1, !.key = key]
                      IN IF key = KeyError
                         THEN Finish(c2, Raised("KeyError", 500, <<"key">>))
                         ELSE c2
                 ELSE [c1 EXCEPT !.pc = "w_get"]]
    /\ UNCHANGED <<buckets, events, nStarted, mode, invalidated, walk>>

\* create_bucket_with_event: bucket = await get_bucket_by_name(session, name),
\* or, on NotFoundException, a new Bucket added to the session
WriteGet(p) ==
    LET c == call[p] IN
    /\ c.pc = "w_get"
    /\ \E dbUp \in BOOLEAN :
         call' = [call EXCEPT ![p] =
            IF dbUp
            THEN [c EXCEPT !.calls = @ + 1, !.pc = "w_commit",
                           !.found = FindBucket(buckets, c.kwargs.bucket_name.s).id]
            ELSE Finish([c EXCEPT !.calls = @ + 1], SomethingWentWrong)]
    /\ UNCHANGED <<buckets, events, cache, nStarted, mode, invalidated, walk>>

CommitEntry(ok) ==
    [step |-> "commit", guard |-> 0, key |-> << >>, before |-> {}, deleted |-> {},
     ok |-> ok]

\* faulty variant: every INSERT is committed on its own, so the new bucket stays
\* when the commit of the event fails
SessionCommitPerStatement(bs, es, bucket, is_new, event, ok) ==
    [buckets |-> IF is_new THEN Append(bs, bucket) ELSE bs,
     events |-> IF ok THEN Append(es, event) ELSE es]

\* await session.commit(): the pending INSERTs of the session (the new bucket,
\* if any, and the event) are made in one transaction, kept together when the
\* commit succeeds and rolled back together when it fails
SessionCommit(bs, es, bucket, is_new, event, ok) ==
    IF ok
    THEN [buckets |-> IF is_new THEN Append(bs, bucket) ELSE bs,
          events |-> Append(es, event)]
    ELSE [buckets |-> bs, events |-> es]

\* create_bucket_with_event: the event is appended, await session.commit()
\* inserts the new bucket (unique name) and the event in one transaction; then
\* the rows are refreshed and the response is built. IntegrityError becomes
\* AlreadyExistsException, every other failure the generic 500
WriteCommit(p) ==
    LET c == call[p]
        name == c.kwargs.bucket_name.s
        now == Len(events) + 1
        bucket == IF c.found = 0
                  THEN [id |-> Len(buckets) + 1, name |-> name, ts |-> now]
                  ELSE FindBucket(buckets, name)
        event == [id |-> now, bucket_id |-> bucket.id, title |-> c.kwargs.event.title,
                  message |-> c.kwargs.event.message, ts |-> now]
        conflict == c.found = 0 /\ FindBucket(buckets, name).id # 0
    IN
    /\ c.pc = "w_commit"
    /\ \E outcome \in {"ok", "commit_error", "response_error"} :
         LET ok == ~conflict /\ outcome # "commit_error"
             store == SessionCommit(buckets, events, bucket, c.found = 0, event, ok)
         IN
         /\ buckets' = store.buckets
         /\ events' = store.events
         /\ call' = [call EXCEPT ![p] =
                Finish([c EXCEPT !.log = Append(@, CommitEntry(ok))],
                       IF conflict
                       THEN SqlalchemyExceptionHandler("Bucket", Raw("IntegrityError"))
                       ELSE IF outcome = "ok"
                       THEN Returned(201, [bucket |-> BucketFields(bucket),
                                           event |-> EventFields(event)])
                       ELSE SomethingWentWrong)]
         /\ invalidated' =
                IF ok /\ mode # "concurrent" /\ outcome = "ok"
                   /\ c.op = "send_event_to_bucket" /\ Len(c.log) > 0
                THEN LET hit == c.log[1].before \cap ListKeysOf(name)
                     IN [k \in (DOMAIN invalidated) \cup hit |->
                            IF k \in hit THEN event.id ELSE invalidated[k]]
                ELSE invalidated
    /\ UNCHANGED <<cache, nStarted, mode, walk>>

----------------------------------------------------------------------------
(* Time *)

\* the seconds that pass in one step of time: half the ttl of the decorators
TimeStep == 1800

\* time passes while redis holds keys: redis drops those whose time to live
\* has run out
TimePasses ==
    /\ cache # NoKeys
    /\ cache' = Elapse(cache, TimeStep)
    /\ UNCHANGED <<buckets, events, call, nStarted, mode, invalidated, walk>>

----------------------------------------------------------------------------
(* The session of a request (get_db) *)

\* what the server answers when an exception no handler is registered for
\* leaves the application
Unhandled(exc) == Raised(exc, 500, <<"Internal Server Error">>)

\* get_db after its yield, once the endpoint has ended. An exception of the
\* endpoint is thrown into the generator, which rolls back and re-raises it.
\* After a return the generator awaits session.commit(); when that raises,
\* it rolls back and raises DatabaseTransactionError, for which no handler
\* is registered: it replaces the response, or, where the framework runs the
\* exit code of the dependency after the response is sent, comes too late
\* for it. The dependencies of the route run before get_db: a request they
\* reject has no session. Neither the Store nor redis is changed: the
\* endpoint has committed already, or has nothing pending
CloseSession(p) ==
    LET c == call[p] IN
    /\ c.pc = "done"
    /\ c.session = "open"
    /\ c.result.exc \notin {"UnprocessableEntityException", "ValidationError"}
    /\ \E commit_ok \in BOOLEAN : \E sent \in BOOLEAN :
         call' = [call EXCEPT ![p] =
            IF c.result.exc # "none" THEN [c EXCEPT !.session = "rolled_back"]
            ELSE IF commit_ok THEN [c EXCEPT !.session = "committed"]
            ELSE [c EXCEPT !.session = "commit_failed",
                           !.result = IF sent THEN c.result
                                      ELSE Unhandled("DatabaseTransactionError")]]
    /\ UNCHANGED <<buckets, events, cache, nStarted, mode, invalidated, walk>>

----------------------------------------------------------------------------
(* A list read page after page *)

NoWalk == [op |-> "none", kwargs |-> << >>, seen |-> << >>, open |-> FALSE]

\* the client asks for the page of the cursor it holds and keeps the
\* next_page of the answer as its next cursor, until there is none
FollowNextPage ==
    /\ walk.open
    /\ LET r == ReadFunc(walk.op, walk.kwargs, buckets, events)
           page == IF walk.op = "fetch_buckets" THEN r.body ELSE r.body.events
       IN walk' = [walk EXCEPT
                !.seen = @ \o [i \in 1..Len(page.items) |-> page.items[i].id],
                !.kwargs = [@ EXCEPT !.cursor = page.next_page],
                !.open = page.next_page # NoCursor]
    /\ UNCHANGED <<buckets, events, cache, call, nStarted, mode, invalidated>>

\* rows the tables hold when a list is read page after page
MaxRows == MaxEvents + 1

\* the contents the tables may have: events in created_at order, each in one
\* of at most two buckets, a bucket being as old as its first event.
\* created_at is the database's now() of the inserting transaction
\* (server_default), so rows of different requests may share it
TableContents ==
    LET Rows(n) == {f \in [1..n -> [bucket_id : 1..2, ts : 1..MaxRows]] :
                        /\ n > 0 => (f[1].ts = 1 /\ f[1].bucket_id = 1)
                        /\ \A i \in 2..n : f[i].ts \in {f[i - 1].ts, f[i - 1].ts + 1}}
        First(f, n, b) == CHOOSE i \in 1..n :
                            f[i].bucket_id = b /\ \A j \in 1..(i - 1) : f[j].bucket_id # b
        NumBuckets(f, n) == IF \E i \in 1..n : f[i].bucket_id = 2 THEN 2
                            ELSE IF n > 0 THEN 1 ELSE 0
    IN {[events |-> [i \in 1..Len(f) |->
                        [id |-> i, bucket_id |-> f[i].bucket_id, title |-> <<"t">>,
                         message |-> <<"m">>, ts |-> f[i].ts]],
         buckets |-> [b \in 1..NumBuckets(f, Len(f)) |->
                        [id |-> b, name |-> IF b = 1 THEN NameA ELSE NameAB,
                         ts |-> f[First(f, Len(f), b)].ts]]] :
            f \in UNION {Rows(n) : n \in 0..MaxRows}}

----------------------------------------------------------------------------
(* Specifications *)

InitWith(m) ==
    /\ buckets = << >>
    /\ events = << >>
    /\ cache = NoKeys
    /\ call = [p \in Procs |-> Idle]
    /\ nStarted = 0
    /\ mode = m
    /\ invalidated = NoKeys
    /\ walk = NoWalk

\* requests run as concurrent tasks
Init == InitWith("concurrent")

\* one request at a time
InitSeq == InitWith("sequential")

\* one request at a time, the decorators also applied with their other options
InitDecor == InitWith("decorators")

\* one call at a time of the wrapped functions, the decorators also applied
\* with their other options, with or without a redis client in the kwargs
InitDirect == InitWith("direct")

\* one request at a time, with the parameters as any client may send them, on
\* a Store that holds bucket "a" with up to MaxEvents events, or nothing
InitRequests ==
    /\ mode = "requests"
    /\ \E n \in 0..MaxEvents :
         /\ events = [i \in 1..n |-> [id |-> i, bucket_id |-> 1, title |-> <<"t">>,
                                       message |-> <<"m">>, ts |-> i]]
         /\ buckets = [b \in 1..Min(n, 1) |-> [id |-> 1, name |-> NameA, ts |-> 1]]
    /\ cache = NoKeys
    /\ call = [p \in Procs |-> Idle]
    /\ nStarted = 0
    /\ invalidated = NoKeys
    /\ walk = NoWalk

\* no request in progress; a client starts to read a list from its first page
InitPages ==
    /\ mode = "pages"
    /\ \E t \in TableContents :
         /\ buckets = t.buckets
         /\ events = t.events
         /\ \E op \in {"fetch_buckets", "fetch_bucket_events"} : \E kw \in KwargsOf(op) :
              /\ kw.cursor = NoCursor
              /\ op = "fetch_bucket_events" =>
                    FindBucket(t.buckets, kw.bucket_name.s) # NoRow
              /\ walk = [op |-> op, kwargs |-> kw, seen |-> << >>, open |-> TRUE]
    /\ cache = NoKeys
    /\ call = [p \in Procs |-> Idle]
    /\ nStarted = 0
    /\ invalidated = NoKeys

Next ==
    \E p \in Procs :
        \/ Start(p)
        \/ CacheGet(p)
        \/ CallFunc(p)
        \/ CacheSet(p)
        \/ Invalidate(p)
        \/ WriteGet(p)
        \/ WriteCommit(p)

Spec == Init /\ [][Next]_vars

SpecSeq == InitSeq /\ [][Next]_vars

SpecDecor == InitDecor /\ [][Next]_vars

SpecDirect == InitDirect /\ [][Next]_vars

SpecRequests == InitRequests /\ [][Next]_vars

\* the requests followed until their session is closed
NextSession ==
    \E p \in Procs :
        \/ Start(p)
        \/ CacheGet(p)
        \/ CallFunc(p)
        \/ CacheSet(p)
        \/ Invalidate(p)
        \/ WriteGet(p)
        \/ WriteCommit(p)
        \/ CloseSession(p)

SpecSession == InitRequests /\ [][NextSession]_vars

\* one request at a time, the cursor also being the text "None"
InitKeys == InitWith("keys")

SpecKeys == InitKeys /\ [][Next]_vars

\* one request at a time, and time passing between their steps
InitExpiry == InitWith("expiry")

NextExpiry ==
    \/ \E p \in Procs :
        \/ Start(p)
        \/ CacheGet(p)
        \/ CallFunc(p)
        \/ CacheSet(p)
        \/ Invalidate(p)
        \/ WriteGet(p)
        \/ WriteCommit(p)
    \/ TimePasses

SpecExpiry == InitExpiry /\ [][NextExpiry]_vars

SpecPages == InitPages /\ [][FollowNextPage]_vars

----------------------------------------------------------------------------
(* Vocabulary of the claims *)

Done(p) == call[p].pc = "done"
DoneRead(p) == Done(p) /\ call[p].op \in ReadOps
DoneCreateEvent(p) == Done(p) /\ call[p].op = "send_event_to_bucket"

Steps(p, step) == {i \in 1..Len(call[p].log) : call[p].log[i].step = step}

\* the endpoint body (the wrapped function) was entered and raised
FuncRaised(p) == call[p].calls > 0 /\ call[p].result.exc # "none"

BucketOfEvent(event_id) == events[event_id].bucket_id
NameOfBucket(bucket_id) == buckets[bucket_id].name

\* key is a list page (bucket list, or events of a bucket) and event i was
\* committed to a bucket whose writes are to invalidate it
Covers(i, key) == key \in ListKeysOf(NameOfBucket(BucketOfEvent(i)))

\* the entry under key was computed from a Store state older than a commit
\* that was to invalidate it
StaleEntry(key) ==
    \E i \in 1..Len(events) : i > cache[key].ver /\ Covers(i, key)

----------------------------------------------------------------------------
(* C1 *)

\* C1: in every send_event_to_bucket call, the Store commit of
\* create_bucket_with_event happens strictly before any cache key deletion of
\* either invalidation wrapper: a deletion in the call's log is preceded by
\* the call's commit.
C1_CommitBeforeDeletion ==
    \A p \in Procs : call[p].op = "send_event_to_bucket" =>
        \A i \in Steps(p, "invalidate") :
            call[p].log[i].deleted # {} =>
                \E j \in Steps(p, "commit") : j < i /\ call[p].log[j].ok

----------------------------------------------------------------------------
(* C2 *)

\* C2: if the wrapped write function raises, the failure reaches the caller
\* and the cache holds the same keys as before the call (requests one at a
\* time, so that no other call changes the cache).
C2_FailedWriteKeepsKeys ==
    \A p \in Procs : (DoneCreateEvent(p) /\ FuncRaised(p)) =>
        DOMAIN cache = call[p].log[1].before

----------------------------------------------------------------------------
(* C3 *)

ListReadOps == {"fetch_buckets", "fetch_bucket_events"}

\* a completed list read of a key that was cached when a createEvent, since
\* completed with success, started: the first read of that key after it
FirstReadAfterWrite(p) ==
    DoneRead(p) /\ call[p].op \in ListReadOps /\ call[p].expect > 0

\* the page a list read returned holds the bucket (bucket list) or the event
\* (events of a bucket) of the write with event id i
PageHolds(c, i) ==
    IF c.op = "fetch_buckets"
    THEN \E k \in 1..Len(c.result.body.items) :
            c.result.body.items[k].id = BucketOfEvent(i)
    ELSE \E k \in 1..Len(c.result.body.events.items) :
            c.result.body.events.items[k].id = i

\* C3 as stated: with requests one at a time, the first list read of a key
\* that was cached before a successful createEvent is a cache miss and the
\* page it returns contains the newly created bucket/event.
C3_NextReadContainsNewItem ==
    \A p \in Procs : (FirstReadAfterWrite(p) /\ call[p].result.exc = "none") =>
        /\ call[p].got = "miss"
        /\ PageHolds(call[p], call[p].expect)

\* C3 amended: with requests one at a time, the first list read of a key that
\* was cached before a successful createEvent is never a cache hit and never
\* NotFound; when it returns a page, the function was called once and the page
\* is the one computed from the Store as it is after the write.
C3_NextReadRecomputes ==
    \A p \in Procs : FirstReadAfterWrite(p) =>
        /\ call[p].got # "hit"
        /\ call[p].result.exc # "NotFoundException"
        /\ call[p].result.exc = "none" =>
              /\ call[p].calls = 1
              /\ call[p].ver >= call[p].expect
              /\ call[p].result = ReadFunc(call[p].op, call[p].kwargs, buckets, events)

\* a first read after a write that returned a page with the new item
C3_Witness ==
    \E p \in Procs :
        /\ FirstReadAfterWrite(p)
        /\ call[p].result.exc = "none"
        /\ call[p].got = "miss"
        /\ PageHolds(call[p], call[p].expect)

----------------------------------------------------------------------------
(* C4 *)

\* C4: once a cached list read and a concurrent createEvent have both
\* completed, the cache holds no list page that was computed from the Store
\* state before the commit of a write that was to invalidate it.
C4_NoStalePageOutlivesWrite ==
    (\A p \in Procs : ~Active(p)) =>
        \A key \in DOMAIN cache : ~StaleEntry(key)

----------------------------------------------------------------------------
(* C5 *)

\* the step in which the redis_cache wrapper of p returns a computed result
ReturnsMiss(p) ==
    /\ call[p].pc = "rc_set"
    /\ call'[p].pc = "done"
    /\ call'[p].result.exc = "none"

\* C5: a redis_cache-wrapped read with a redis client never calls the
\* function more than once; when redis.get returned a value, the function is
\* not called and the cache is not written; when it returned none, the function
\* is called once, and the step that returns its result stores that result,
\* serialized, under the built key.
C5_HitZeroMissOnce ==
    /\ [](\A p \in Procs : call[p].op \in ReadOps =>
            /\ call[p].calls <= 1
            /\ call[p].got = "hit" => (Done(p) /\ call[p].calls = 0 /\ ~call[p].wrote)
            /\ (Done(p) /\ call[p].got = "miss") => call[p].calls = 1
            /\ call[p].wrote => call[p].got = "miss")
    /\ [][\A p \in Procs :
            /\ ReturnsMiss(p) =>
                  /\ call[p].key \in DOMAIN cache'
                  /\ cache'[call[p].key].val =
                        ModelDumpJson(ReturnType(call[p].op), call'[p].result.body)
                  /\ call'[p].result = call[p].result
            /\ (call'[p].op \in ReadOps /\ call'[p].got = "hit"
                 /\ call[p].pc = "rc_get") =>
                  /\ cache' = cache
                  /\ call[p].key \in DOMAIN cache
                  /\ call'[p].result.body =
                        ModelValidateJson(ReturnType(call[p].op), cache[call[p].key].val)
            /\ (call[p].pc = "rc_get" /\ call'[p].pc = "rc_func") =>
                  call[p].key \notin DOMAIN cache]_vars

\* a read answered from the cache, after a read that missed and stored
C5_Witness ==
    \E p \in Procs :
        /\ DoneRead(p) /\ call[p].got = "hit" /\ call[p].calls = 0
        /\ call[p].result.exc = "none"
        /\ call[p].key \in DOMAIN cache

----------------------------------------------------------------------------
(* C6 *)

\* C6: a failure of the cache backend during a redis_cache-wrapped read does
\* not fail the read: no read ends with the backend's error.
C6_CacheFailureNeverFailsRead ==
    \A p \in Procs : DoneRead(p) => call[p].result.exc # "RedisError"

----------------------------------------------------------------------------
(* C7 *)

\* C7: when a cache deletion fails during send_event_to_bucket, the failure
\* is not raised to the caller and the write is still performed.
C7_DeletionFailureNeverFailsWrite ==
    \A p \in Procs :
        (DoneCreateEvent(p)
         /\ \E i \in Steps(p, "invalidate") : ~call[p].log[i].ok) =>
            /\ call[p].result.exc # "RedisError"
            /\ Steps(p, "commit") # {}

----------------------------------------------------------------------------
(* C8 *)

\* C8: with the two guards chained on send_event_to_bucket, a failure of one
\* guard's deletion does not keep the other guard from attempting its own.
C8_BothGuardsAttempt ==
    \A p \in Procs : DoneCreateEvent(p) =>
        \A i \in Steps(p, "invalidate") :
            ~call[p].log[i].ok =>
                \A g \in 1..Len(Guards(call[p].op)) :
                    \E j \in Steps(p, "invalidate") : call[p].log[j].guard = g

----------------------------------------------------------------------------
(* C9 *)

\* the keys the claim says one invalidate_cache call deletes
ClaimedDeletions(keys, cache_key, recursive) ==
    IF recursive THEN {k \in keys : IsPrefix(cache_key, k)}
    ELSE {k \in keys : k = cache_key}

\* the step in which an invalidate_cache wrapper of p completes its deletions
Invalidates(p) ==
    /\ call[p].pc = "inv"
    /\ Len(call'[p].log) = Len(call[p].log) + 1
    /\ call'[p].log[Len(call'[p].log)].ok

\* C9: one invalidate_cache call removes from the cache exactly the keys that
\* start with the built key (recursive) or the built key alone (not
\* recursive), and leaves every other entry as it was; and, requests one at a
\* time, after a successful createEvent on bucket n no cached key starts with
\* "bucket_events:n" or with "buckets".
C9_DeletesExactlyThePrefix ==
    /\ [][\A p \in Procs : Invalidates(p) =>
            /\ (DOMAIN cache) \ (DOMAIN cache') =
                  ClaimedDeletions(DOMAIN cache, call[p].key,
                                   Guards(call[p].op)[call[p].guard].recursive)
            /\ \A k \in DOMAIN cache' : k \in DOMAIN cache /\ cache'[k] = cache[k]]_vars
    /\ [](\A p \in Procs :
            (DoneCreateEvent(p) /\ call[p].result.exc = "none") =>
                \A k \in DOMAIN cache :
                    /\ ~IsPrefix(S_bucket_events \o S_colon \o call[p].kwargs.bucket_name.s, k)
                    /\ ~IsPrefix(S_buckets, k))

\* a successful createEvent each of whose guards deleted a cached page
C9_Witness ==
    \E p \in Procs :
        /\ DoneCreateEvent(p) /\ call[p].result.exc = "none"
        /\ \A g \in 1..2 : \E i \in Steps(p, "invalidate") :
              call[p].log[i].guard = g /\ call[p].log[i].deleted # {}

----------------------------------------------------------------------------
(* C10 *)

\* C10: of two concurrent createEvent calls for the same new bucket name
\* neither fails: no createEvent ends with the unique-name conflict.
C10_NameRaceLoserSucceeds ==
    \A p \in Procs : DoneCreateEvent(p) =>
        call[p].result.exc # "AlreadyExistsException"

----------------------------------------------------------------------------
(* C11 *)

\* every bucket of the Store came with an event of the same commit, and every
\* event belongs to a bucket of the Store
BucketsCameWithEvent ==
    /\ \A i \in 1..Len(buckets) :
          \E j \in 1..Len(events) :
              events[j].bucket_id = buckets[i].id /\ events[j].ts = buckets[i].ts
    /\ \A j \in 1..Len(events) :
          \E i \in 1..Len(buckets) : buckets[i].id = events[j].bucket_id

\* the step in which create_bucket_with_event of p commits, or fails to
CommitStep(p) == call[p].pc = "w_commit" /\ call'[p].pc = "done"

\* C11: createEvent is atomic in the Store. In every state every bucket is
\* there with the event of the call that created it; a commit step that fails
\* leaves both tables as they were, and one that succeeds adds exactly the
\* call's event and, for a new name, exactly the call's bucket.
C11_BucketAndEventTogether ==
    /\ []BucketsCameWithEvent
    /\ [][\A p \in Procs : CommitStep(p) =>
            LET entry == call'[p].log[Len(call'[p].log)]
                name == call[p].kwargs.bucket_name.s
            IN IF entry.ok
               THEN /\ Len(events') = Len(events) + 1
                    /\ SubSeq(events', 1, Len(events)) = events
                    /\ buckets'[events'[Len(events')].bucket_id].name = name
                    /\ IF call[p].found = 0
                       THEN /\ Len(buckets') = Len(buckets) + 1
                            /\ SubSeq(buckets', 1, Len(buckets)) = buckets
                       ELSE buckets' = buckets
               ELSE buckets' = buckets /\ events' = events]_vars

\* two createEvent calls for one new name have ended, one having created the
\* bucket with its event, the other having failed at its commit
C11_Witness ==
    \E p, q \in Procs :
        /\ DoneCreateEvent(p) /\ call[p].found = 0 /\ call[p].result.exc = "none"
        /\ DoneCreateEvent(q) /\ call[q].result.exc # "none"
        /\ Steps(q, "commit") # {}
        /\ call[q].kwargs.bucket_name = call[p].kwargs.bucket_name
        /\ BucketsCameWithEvent

----------------------------------------------------------------------------
(* C12 *)

DoneGetEvent(p) == Done(p) /\ call[p].op = "fetch_event"

\* the event row with this id is in the Store, in the bucket of this name
EventInBucket(event_id, name) ==
    /\ event_id \in 1..Len(events)
    /\ NameOfBucket(BucketOfEvent(event_id)) = name

\* C12: a successful createEvent(n, e) returns the bucket named n with the
\* created event, which is in the Store with e's title and message under n; a
\* getEvent(n, id) that is served, from the Store or from the cache, returns
\* the title and message of the event created with that id, and a getEvent of
\* an event created under n never reports it missing (requests one at a time).
C12_CreateThenGetEvent ==
    /\ \A p \in Procs : (DoneCreateEvent(p) /\ call[p].result.exc = "none") =>
          LET e == call[p].kwargs.event
              r == call[p].result.body
          IN /\ r.bucket.name = call[p].kwargs.bucket_name.s
             /\ r.event.title = e.title /\ r.event.message = e.message
             /\ EventInBucket(r.event.id, call[p].kwargs.bucket_name.s)
             /\ events[r.event.id].title = e.title
             /\ events[r.event.id].message = e.message
             /\ events[r.event.id].bucket_id = r.bucket.id
    /\ \A p \in Procs : DoneGetEvent(p) =>
          LET id == call[p].kwargs.event_ID.n
              n == call[p].kwargs.bucket_name.s
          IN /\ call[p].result.exc = "none" =>
                   /\ EventInBucket(id, n)
                   /\ call[p].result.body.id = id
                   /\ call[p].result.body.title = events[id].title
                   /\ call[p].result.body.message = events[id].message
             /\ EventInBucket(id, n) => call[p].result.exc # "NotFoundException"

\* the second event of a bucket, created with the other payload than the
\* first, was read back from the cache
C12_Witness ==
    \E p \in Procs :
        /\ DoneGetEvent(p) /\ call[p].result.exc = "none" /\ call[p].got = "hit"
        /\ call[p].kwargs.event_ID.n = 2
        /\ Len(events) = 2
        /\ events[1].bucket_id = events[2].bucket_id
        /\ events[1].title # events[2].title
        /\ call[p].result.body.title = events[2].title

----------------------------------------------------------------------------
(* C13 *)

\* the step in which redis.get of p's read returns a value
HitStep(p) == call[p].pc = "rc_get" /\ call'[p].got = "hit"

\* the page of a list result
PageOf(op, body) == IF op = "fetch_buckets" THEN body ELSE body.events

----------------------------------------------------------------------------
(* C14 *)

\* the page-after-page read of the client has come to its end
WalkDone == walk.op # "none" /\ ~walk.open

\* the ids of rows, in their order
IdsOf(rows) == [i \in 1..Len(rows) |-> rows[i].id]

\* C14: for a fixed set of events in a bucket, the pages read from
\* cursor=None to the last next_page, put one after the other, are the events
\* of the bucket, each once, in created_at order, for every page size.
C14_PagesYieldEveryEventOnce ==
    (WalkDone /\ walk.op = "fetch_bucket_events") =>
        walk.seen =
            IdsOf(EventsOf(events, FindBucket(buckets, walk.kwargs.bucket_name.s).id))

----------------------------------------------------------------------------
(* C15 *)

\* the rows of the list the client reads
WalkedRows ==
    IF walk.op = "fetch_buckets" THEN buckets
    ELSE EventsOf(events, FindBucket(buckets, walk.kwargs.bucket_name.s).id)

\* how many times an id occurs in a sequence of ids
Occurrences(ids, id) == Cardinality({k \in 1..Len(ids) : ids[k] = id})

\* C15: the pagination order is total, so that over the consecutive pages of
\* a list (buckets, or events of a bucket) no row is skipped and none is
\* returned twice, also when rows share their primary sort value.
C15_NoRowSkippedOrRepeated ==
    WalkDone =>
        \A i \in 1..Len(WalkedRows) : Occurrences(walk.seen, WalkedRows[i].id) = 1


----------------------------------------------------------------------------
(* C16 *)

ListRead(p) == Done(p) /\ call[p].op \in ListReadOps

\* the requested size brought into [1, MaxPageSize]
Clamp(size) ==
    IF size < 1 THEN 1 ELSE IF size > MaxPageSize THEN MaxPageSize ELSE size

\* C16: the page size used for a list read is the requested size clamped to
\* [1, MAX_PAGE_SIZE] (0 or below counts as 1, above the maximum as the
\* maximum), and no requested size makes the read fail: no list read ends with
\* the rejection of its size, and a list read that returns from the Store
\* returns what the same read returns for the clamped size.
C16_SizeClampedNeverFails ==
    \A p \in Procs :
        ListRead(p) =>
            /\ call[p].result.exc # "ValidationError"
            /\ (call[p].calls = 1 /\ call[p].result.exc = "none") =>
                    call[p].result =
                        ReadFunc(call[p].op,
                                 [call[p].kwargs EXCEPT
                                    !.size = PyInt(Clamp(call[p].kwargs.size.n))],
                                 buckets, events)


----------------------------------------------------------------------------
(* C17 *)

\* the cursor of the request is a text that is no token of the paginator
Tampered(kwargs) == kwargs.cursor.t # "none" /\ DecodeCursor(kwargs.cursor.s) < 0

\* the list read of p reached the paginator: the dependencies passed, redis
\* had no value, the Store answered and the bucket asked for exists
ReachedPaginator(p) ==
    /\ ListRead(p)
    /\ call[p].db = "up"
    /\ call[p].op = "fetch_bucket_events" =>
            FindBucket(buckets, call[p].kwargs.bucket_name.s) # NoRow

\* C17: a list read given an invalid or tampered cursor fails with the
\* dedicated invalid-cursor error, a client error with status 422, never with
\* the generic 500 "Something went wrong" error, and leaves no cache entry
\* for that cursor.
C17_InvalidCursorIsClientError ==
    \A p \in Procs :
        ReachedPaginator(p) /\ Tampered(call[p].kwargs) =>
            /\ call[p].result.exc # "none"
            /\ call[p].result.status = 422
            /\ call[p].result # SomethingWentWrong
            /\ Format(CacheTemplate(call[p].op), call[p].kwargs) \notin DOMAIN cache


----------------------------------------------------------------------------
(* C18 *)

\* a placeholder of the template has no value among the keyword parameters
MissingValue(template, kwargs) ==
    \E i \in 1..Len(template) :
        template[i].ph # "" /\ template[i].ph \notin DOMAIN kwargs

\* the templates of the decorators of op, outermost first
TemplatesOf(op) ==
    IF op \in WriteOps
    THEN [g \in 1..Len(Guards(op)) |-> Guards(op)[g].template]
    ELSE <<CacheTemplate(op)>>

\* the outermost decorator of the call of p whose template lacks a value, 0
\* when there is none
FailingDecorator(p) ==
    LET ts == TemplatesOf(call[p].op)
        bad == {g \in 1..Len(ts) : MissingValue(ts[g], call[p].kwargs)}
    IN IF bad = {} THEN 0 ELSE CHOOSE g \in bad : \A h \in bad : g <= h

\* C18: building a cache key from a template fails immediately with an error
\* when a placeholder of the template has no value among the call's keyword
\* parameters, and then neither the underlying function is called nor any
\* cache key read, written or deleted: a call never goes on at or inside the
\* decorator whose template lacks a value; once the decorators outside it have
\* passed, the call has ended with KeyError, the function was not called,
\* redis was not read or written for the call, and no deletion was made by
\* that decorator or one inside it.
C18_MissingPlaceholderFailsFast ==
    \A p \in Procs :
        (call[p].op # "none" /\ FailingDecorator(p) > 0) =>
            LET g == FailingDecorator(p)
                inv == Steps(p, "invalidate")
            IN /\ Active(p) => (call[p].op \in WriteOps /\ call[p].guard < g)
               /\ (Done(p) /\ \A i \in inv : call[p].log[i].ok) =>
                      call[p].result.exc = "KeyError"
               /\ call[p].calls = 0
               /\ call[p].got = "none"
               /\ ~call[p].wrote
               /\ Steps(p, "commit") = {}
               /\ \A i \in inv : call[p].log[i].guard < g

\* a write whose inner guard names a field that is no parameter has ended with
\* KeyError after its outer guard ran, keys being left in redis
C18_Witness ==
    \E p \in Procs :
        /\ Done(p)
        /\ call[p].op = "misnamed_field_write"
        /\ call[p].result.exc = "KeyError"
        /\ Len(call[p].log) = 1
        /\ cache # NoKeys


----------------------------------------------------------------------------
(* C19 *)

\* the name matches ^[A-Za-z0-9_-]+$
MatchesNamePattern(name) ==
    /\ name # << >>
    /\ \A i \in 1..Len(name) : name[i] \in AsciiAlnum \cup {"_", "-"}

\* the request of p, which has ended, got as far as the name check: its
\* route has the check and the dependency before it passed
NameChecked(p) ==
    /\ Done(p)
    /\ "bucket_name" \in DOMAIN call[p].kwargs
    /\ call[p].op = "fetch_bucket_events" => SetPagination(call[p].kwargs) = NoResult

\* the request of p was rejected with 422 and the message of the name check
RejectedName(p) ==
    /\ call[p].result.exc = "UnprocessableEntityException"
    /\ call[p].result.status = 422
    /\ call[p].result.body =
            InvalidValueMessage("bucket_name", call[p].kwargs.bucket_name.s)

\* C19: the bucket-name check accepts a bucket_name exactly when it matches
\* ^[A-Za-z0-9_-]+$ and otherwise rejects the request with 422 and the message
\* "Invalid value for bucket_name: <name>. Only alphanumeric characters,
\* dashes, and underscores are allowed."; this for every non-empty name,
\* those made only of dashes and underscores included.
C19_NameCheckIsThePattern ==
    \A p \in Procs :
        NameChecked(p) =>
            (RejectedName(p) <=> ~MatchesNamePattern(call[p].kwargs.bucket_name.s))


----------------------------------------------------------------------------
(* C20 *)

\* r is the error 404 "<resource> not found"
IsNotFound(r, resource) ==
    /\ r.exc = "NotFoundException"
    /\ r.status = 404
    /\ r.body = <<resource, "not found">>

\* the read of p, by bucket name, has ended after its function ran on a Store
\* that answered
NamedReadRan(p) ==
    /\ Done(p)
    /\ call[p].op \in {"fetch_bucket_events", "fetch_event"}
    /\ call[p].db = "up"

BucketAbsent(p) == FindBucket(buckets, call[p].kwargs.bucket_name.s) = NoRow

EventAbsent(p) ==
    /\ call[p].op = "fetch_event"
    /\ ~BucketAbsent(p)
    /\ FindEvent(events, FindBucket(buckets, call[p].kwargs.bucket_name.s).id,
                 call[p].kwargs.event_ID.n) = NoRow

\* C20: a read that names an absent bucket fails with 404 "Bucket not found"
\* and a read of an absent event in an existing bucket with 404 "Event not
\* found": the not-found error of the inner service call passes the outer
\* exception handler unchanged, so the resource reported is the one that is
\* missing, and no read reports a resource that is there.
C20_NotFoundNamesTheMissingResource ==
    \A p \in Procs :
        NamedReadRan(p) =>
            /\ BucketAbsent(p) => IsNotFound(call[p].result, "Bucket")
            /\ EventAbsent(p) => IsNotFound(call[p].result, "Event")
            /\ call[p].result.exc = "NotFoundException" =>
                    (BucketAbsent(p) \/ EventAbsent(p))

\* the events of a bucket that does not exist were asked for, through
\* get_bucket_with_events and, inside it, get_bucket_by_name
C20_Witness ==
    \E p \in Procs :
        /\ NamedReadRan(p)
        /\ call[p].op = "fetch_bucket_events"
        /\ BucketAbsent(p)
        /\ IsNotFound(call[p].result, "Bucket")


----------------------------------------------------------------------------
(* C21 *)

\* r is one of the errors of the taxonomy a gateway operation may fail with:
\* not found, conflict, or the generic error
TaxonomyError(r) ==
    \/ r.exc = "NotFoundException" /\ r.status = 404
    \/ r.exc = "AlreadyExistsException" /\ r.status = 409
    \/ r = SomethingWentWrong

\* the request of p has ended, its session closed, with a failure that comes
\* neither from redis nor from building a cache key
StoreFailure(p) ==
    /\ Done(p)
    /\ call[p].session # "open"
    /\ call[p].result.exc \notin {"none", "RedisError", "KeyError"}

\* C21: every failure that reaches the caller of a gateway operation is one
\* of the taxonomy errors (not found 404, conflict 409, or the generic 500):
\* no raw persistence exception (NoResultFound, IntegrityError, or a commit
\* error raised while the session of the request is finalised) is ever
\* propagated to the caller.
C21_OnlyTaxonomyErrorsReachCaller ==
    \A p \in Procs : StoreFailure(p) => TaxonomyError(call[p].result)


----------------------------------------------------------------------------
(* C22 *)

\* C22: getEvent(bucketName, eventId) fails with NotFound whenever the bucket
\* is absent or no event with that id belongs to that bucket, the case of an
\* event with that id in another bucket included; an event is never returned
\* through a bucket that does not own it (requests one at a time): a
\* getEvent that was answered by the Store failed with 404 not found unless
\* the event is in the bucket named, and a getEvent that returned, from the
\* Store or from the cache, returned the event of that id, which is in the
\* bucket named.
C22_EventOnlyThroughItsBucket ==
    \A p \in Procs :
        DoneGetEvent(p) =>
            LET name == call[p].kwargs.bucket_name.s
                event_id == call[p].kwargs.event_ID.n
                r == call[p].result
            IN /\ (call[p].db = "up" /\ ~EventInBucket(event_id, name)) =>
                        (r.exc = "NotFoundException" /\ r.status = 404)
               /\ r.exc = "none" =>
                        (r.body.id = event_id /\ EventInBucket(event_id, name))

\* an event that is in another bucket was asked for through an existing
\* bucket, and reported as not found
C22_Witness ==
    \E p \in Procs :
        /\ DoneGetEvent(p)
        /\ call[p].db = "up"
        /\ call[p].kwargs.event_ID.n \in 1..Len(events)
        /\ FindBucket(buckets, call[p].kwargs.bucket_name.s) # NoRow
        /\ ~EventInBucket(call[p].kwargs.event_ID.n, call[p].kwargs.bucket_name.s)
        /\ IsNotFound(call[p].result, "Event")


----------------------------------------------------------------------------
(* C23 *)

\* every entry expires ttl seconds after it was written
ExpiryCountedFromWrite ==
    \A k \in DOMAIN cache :
        cache[k].ttl > 0 /\ cache[k].ttl + cache[k].age = CacheTtl

\* this step is the setex of a read of key k that had missed
SetByReadMiss(k) ==
    \E p \in Procs :
        /\ call[p].pc = "rc_set"
        /\ call[p].op \in ReadOps
        /\ call[p].got = "miss"
        /\ call[p].key = k
        /\ call'[p].wrote

\* this step is the deletion of key k by a guard of a write
DeletedByWrite(k) ==
    \E p \in Procs :
        /\ call[p].pc = "inv"
        /\ call[p].op \in WriteOps
        /\ Len(call'[p].log) = Len(call[p].log) + 1
        /\ k \in call'[p].log[Len(call'[p].log)].deleted

\* this step is the expiry of key k: no call moves, the time to live of k runs out
Expired(k) ==
    /\ call' = call
    /\ cache[k].ttl <= TimeStep

\* C23: every cache entry is created only by a read miss and carries an
\* expiry of ttl seconds counted from that write; a cache hit does not extend
\* the expiry, write operations never create cache entries, and an entry
\* disappears only by expiry or by an invalidation triggered by a write: a
\* key that appears, or whose time to live grows or whose value changes, was
\* set in that step by a read that had missed, with ttl seconds to live; a
\* key that disappears expired or was deleted by the guard of a write.
C23_EntryLifecycle ==
    /\ []ExpiryCountedFromWrite
    /\ [][\A k \in (DOMAIN cache) \cup (DOMAIN cache') :
            /\ (k \notin DOMAIN cache
                \/ (k \in DOMAIN cache' /\ (cache'[k].ttl > cache[k].ttl
                                            \/ cache'[k].val # cache[k].val))) =>
                    (SetByReadMiss(k) /\ cache'[k].ttl = CacheTtl /\ cache'[k].age = 0)
            /\ (k \in DOMAIN cache /\ k \notin DOMAIN cache') =>
                    (Expired(k) \/ DeletedByWrite(k))]_vars

\* an entry written by a miss was read by a hit after half its time to live,
\* which left it its remaining time, and then expired
C23_Witness ==
    /\ cache = NoKeys
    /\ \E p \in Procs :
        /\ DoneRead(p)
        /\ call[p].got = "hit"
        /\ call[p].key \notin DOMAIN cache
    /\ events = << >>
    /\ nStarted = 2


----------------------------------------------------------------------------
(* C24 *)

\* the two requests are reads of one key that both missed, with no write
\* between their calls of the function (both saw the same Store), and no
\* redis command of theirs failed
TwoMisses ==
    /\ call[1].op \in ReadOps
    /\ call[2].op = call[1].op
    /\ call[2].key = call[1].key
    /\ call[1].got = "miss" /\ call[2].got = "miss"
    /\ call[1].calls = 1 /\ call[2].calls = 1
    /\ call[1].db = "up" /\ call[2].db = "up"
    /\ call[1].ver = call[2].ver
    /\ call[1].result.exc # "RedisError" /\ call[2].result.exc # "RedisError"

\* the read of p is at a redis command or at the call of its function
ReadStepEnabled(p) ==
    /\ call[p].pc = "rc_get" => ENABLED CacheGet(p)
    /\ call[p].pc = "rc_func" => ENABLED CallFunc(p)
    /\ call[p].pc = "rc_set" => ENABLED CacheSet(p)

\* C24: when two reads of the same key miss concurrently with no write in
\* progress, each may call the underlying read function and write the cache,
\* no lock is taken and neither blocks the other; both return the same page,
\* and after both complete the cache holds that page under the key (last
\* write wins): the next step of a read is always possible whatever the
\* other request does; two such reads got the same result from the function;
\* when both have ended with a page, both wrote it and the key holds it; and
\* every setex of a read leaves its own page under the key, whatever was
\* there.
C24_ConcurrentMissesLastWriteWins ==
    /\ [](\A p \in Procs : ReadStepEnabled(p))
    /\ [](TwoMisses =>
            /\ call[1].result.exc = call[2].result.exc
            /\ call[1].result.body = call[2].result.body
            /\ (Done(1) /\ Done(2) /\ call[1].result.exc = "none") =>
                    /\ call[1].wrote /\ call[2].wrote
                    /\ call[1].key \in DOMAIN cache
                    /\ cache[call[1].key].ret = call[1].result.body)
    /\ [][\A p \in Procs :
            (call[p].pc = "rc_set" /\ call'[p].wrote) =>
                /\ call[p].key \in DOMAIN cache'
                /\ cache'[call[p].key].ret = call[p].result.body
                /\ cache'[call[p].key].ver = call[p].ver]_vars

\* two reads of one key have both missed, both called the function and both
\* written the cache
C24_Witness ==
    /\ TwoMisses
    /\ Done(1) /\ Done(2)
    /\ call[1].wrote /\ call[2].wrote
    /\ call[1].result.exc = "none"
    /\ Len(call[1].result.body.items) > 0


----------------------------------------------------------------------------
(* C25 *)

\* C25: a createEvent on bucket n leaves untouched every cached entry that
\* belongs to another bucket m (keys "bucket_events:m:..." and "event:m:...")
\* and every cached single-event entry of n: only list pages of n and pages
\* of the bucket list are deleted, for every pair of valid bucket names,
\* those where n is a prefix of m included: every key a guard of the write
\* deleted is the key of a page of the bucket list or of the events of n.
C25_OtherBucketsKeysUntouched ==
    \A p \in Procs :
        call[p].op = "send_event_to_bucket" =>
            \A i \in Steps(p, "invalidate") :
                call[p].log[i].deleted \subseteq ListKeysOf(call[p].kwargs.bucket_name.s)


----------------------------------------------------------------------------
(* C26 *)

\* C26: cache keys are injective in the call parameters: two reads of the
\* same operation with different parameter values (cursor, size, bucket_name,
\* event id), an absent cursor and a cursor given as the text "None"
\* included, never build the same cache key, so a read is never answered with
\* a page cached for different parameters: the parameters of a read that was
\* answered from the cache are those of the read that wrote the entry.
C26_HitHasTheSameParameters ==
    \A p \in Procs :
        (DoneRead(p) /\ call[p].got = "hit") =>
            /\ call[p].key \in DOMAIN cache
            /\ cache[call[p].key].kw = call[p].kwargs


----------------------------------------------------------------------------
(* C27 *)

\* the function of the read of p was called and raised
ReadFuncFailed(p) ==
    /\ call[p].op \in ReadOps
    /\ call[p].calls = 1
    /\ call[p].result.exc \notin {"none", "pending", "RedisError"}

\* what the read of p asks for is in the Store: the bucket it names and, for
\* a single event, the event in that bucket
ResourcePresent(p) ==
    /\ "bucket_name" \in DOMAIN call[p].kwargs =>
            FindBucket(buckets, call[p].kwargs.bucket_name.s) # NoRow
    /\ call[p].op = "fetch_event" =>
            EventInBucket(call[p].kwargs.event_ID.n, call[p].kwargs.bucket_name.s)

\* C27: a redis_cache-wrapped read whose underlying function fails (for
\* example NotFound for an absent bucket or event) writes nothing to the
\* cache: failures are never cached, so after the bucket or event is created
\* the same read succeeds instead of repeating the earlier failure (requests
\* one at a time): such a read ends at once, has written nothing and leaves
\* no entry under its key; and no read reports as not found a bucket or an
\* event that is in the Store.
C27_FailuresAreNotCached ==
    \A p \in Procs :
        /\ ReadFuncFailed(p) =>
                /\ Done(p)
                /\ ~call[p].wrote
                /\ call[p].key \notin DOMAIN cache
        /\ (DoneRead(p) /\ ResourcePresent(p)) =>
                call[p].result.exc # "NotFoundException"

\* an event that is not in the bucket named was asked for while redis holds
\* other entries: the read failed with not found and left no entry
C27_Witness ==
    \E p \in Procs :
        /\ Done(p)
        /\ ReadFuncFailed(p)
        /\ IsNotFound(call[p].result, "Event")
        /\ cache # NoKeys


----------------------------------------------------------------------------
(* C28 *)

\* no two buckets of the Store have the same name
UniqueNames ==
    \A i, j \in 1..Len(buckets) : buckets[i].name = buckets[j].name => i = j

\* the step of a createEvent of p for bucket n adds one event, to n, and the
\* bucket n exactly when there was none, and changes no other row
AddsOneEventTo(p) ==
    LET name == call[p].kwargs.bucket_name.s IN
    /\ Len(events') = Len(events) + 1
    /\ SubSeq(events', 1, Len(events)) = events
    /\ buckets'[events'[Len(events')].bucket_id].name = name
    /\ events'[Len(events')].title = call[p].kwargs.event.title
    /\ events'[Len(events')].message = call[p].kwargs.event.message
    /\ SubSeq(buckets', 1, Len(buckets)) = buckets
    /\ Len(buckets') = Len(buckets) + (IF FindBucket(buckets, name) = NoRow THEN 1 ELSE 0)

\* C28: each successful createEvent(n, title, message) adds exactly one event
\* to bucket n and none to any other bucket; it creates bucket n if and only
\* if no bucket named n existed, and never changes the name or the existing
\* events of any bucket, so that after any sequence of sequential createEvent
\* calls bucket names are unique and the number of events in n equals the
\* number of successful calls for n: names are unique in every state; the
\* step that ends a successful call adds its one event as said; and the step
\* that ends any other call adds nothing, without which the events would
\* outnumber the successful calls.
C28_OneEventPerSuccessfulCall ==
    /\ []UniqueNames
    /\ [][\A p \in Procs : CommitStep(p) =>
            IF call'[p].result.exc = "none"
            THEN AddsOneEventTo(p)
            ELSE buckets' = buckets /\ events' = events]_vars


----------------------------------------------------------------------------
(* C29 *)

\* the call of p was made without a redis client among its keyword arguments
CalledWithoutRedis(p) == call[p].op # "none" /\ ~call[p].redis

\* what the function wrapped by the read p returned, on the Store as it is
Unwrapped(p) ==
    IF call[p].db = "up"
    THEN ReadFunc(call[p].op, call[p].kwargs, buckets, events)
    ELSE SomethingWentWrong

\* the call of p so far has built no key, read nothing from redis, written
\* nothing to it and deleted nothing from it
NoCacheTraffic(p) ==
    /\ call[p].key = << >>
    /\ call[p].got = "none"
    /\ ~call[p].wrote
    /\ \A i \in 1..Len(call[p].log) : call[p].log[i].step # "invalidate"

\* C29: a wrapped function called without a redis client among its keyword
\* arguments is called exactly once by redis_cache and by invalidate_cache
\* (the two nested ones of a write included), its result is returned
\* unchanged, and no cache key is built and nothing is read from, written to
\* or deleted from redis: the steps of such a call leave redis as it is.
C29_WithoutRedisStraightToFunc ==
    /\ [](\A p \in Procs : CalledWithoutRedis(p) =>
            /\ NoCacheTraffic(p)
            /\ call[p].calls <= 1
            /\ Done(p) => /\ call[p].calls = 1
                          /\ call[p].result.exc # "KeyError"
                          /\ call[p].op \in ReadOps =>
                                /\ call[p].result.exc = Unwrapped(p).exc
                                /\ call[p].result = Unwrapped(p))
    /\ [][\A p \in Procs :
            (call'[p] # call[p] /\ call'[p].op # "none" /\ ~call'[p].redis)
                => cache' = cache]_vars

\* a read made without a redis client has returned the page of the Store while
\* redis holds, under the key a client would make the wrapper build, an older
\* page that differs from it
C29_Witness ==
    \E p \in Procs :
        /\ CalledWithoutRedis(p) /\ DoneRead(p)
        /\ call[p].result.exc = "none"
        /\ FirstKey(call[p].op, call[p].kwargs) \in DOMAIN cache
        /\ cache[FirstKey(call[p].op, call[p].kwargs)].ret # call[p].result.body

====
